---- MODULE Spec2Model ----
(***************************************************************************)
(* A model of SEIR/setup.py: the spatial network (SpatialSetup), the       *)
(* simulation grid and dynamic filter (Setup), the seeding scheduler       *)
(* (seeding_draw) and the parameter drawer (parameters_quick_draw).        *)
(*                                                                         *)
(* Arrays are records [shape, flat]: shape is the numpy shape tuple and    *)
(* flat the values in row-major order.  Indices are 0-based as in Python.  *)
(***************************************************************************)
EXTENDS Integers, Sequences, FiniteSets, TLC

\* ------------------------------------------------------------------ bounds
MaxNodes == 3       \* rows of the node table
MaxDim == 2         \* rows and columns of the mobility matrix file
MaxSpan == 2        \* days from ti to tf
MaxDtNum == 3       \* dt = num / den days
MaxDtDen == 2
MaxSeedSpan == 1    \* t_span of the Setup a seeding is drawn for
MaxRows == 2        \* rows of a lambda file
MaxFiles == 2       \* files of a seeding folder
MaxDraw == 1        \* largest value a Poisson draw returns
MaxGrid == 3        \* nt_inter handed to parameters_quick_draw
MaxNpiDays == 3     \* days of the NPI series
MaxSample == 2      \* largest value a configured distribution returns

\* ------------------------------------------------------- program constants
n_Icomp == 3
EpsDen == 10000     \* the 0.0001 added to the upper bound of t_inter

Geoids == {"a", "b", "c"}
Populations == {1, 2}
FlowValues == {0, 2}

None == [none |-> TRUE]

\* ---------------------------------------------------------------- helpers
SeqsOfLen(S, n) == [1..n -> S]

SeqsUpTo(S, n) == UNION {SeqsOfLen(S, k) : k \in 0..n}

Range(f) == {f[i] : i \in DOMAIN f}

\* a text file holding a matrix of nrows lines with ncols numbers each
MatrixFiles(Values, maxdim) ==
    UNION {{[nrows |-> r, ncols |-> c, flat |-> f] :
                f \in SeqsOfLen(Values, r * c)} :
           <<r, c>> \in (1..maxdim) \X (1..maxdim)}

\* np.loadtxt: the result is squeezed, a single row or column comes back
\* 1-dimensional and a single number 0-dimensional
loadtxt(file) ==
    [shape |-> IF file.nrows = 1 /\ file.ncols = 1 THEN << >>
               ELSE IF file.nrows = 1 THEN <<file.ncols>>
               ELSE IF file.ncols = 1 THEN <<file.nrows>>
               ELSE <<file.nrows, file.ncols>>,
     flat |-> file.flat]

\* scipy.sparse.csr_matrix(dense): np.atleast_2d puts a 0-d or 1-d array in
\* one row
csr_matrix(arr) ==
    [shape |-> IF Len(arr.shape) = 2 THEN arr.shape
               ELSE IF Len(arr.shape) = 1 THEN <<1, arr.shape[1]>>
               ELSE <<1, 1>>,
     flat |-> arr.flat]

\* element [r, c] of a 2-d array, r and c 0-based
At(arr, r, c) == arr.flat[r * arr.shape[2] + c + 1]

\* ------------------------------------------------------------------ state
VARIABLES
    geodata,        \* the node table file: columns present, geoids, populations
    mobility_file,  \* the mobility matrix file
    spatset,        \* the SpatialSetup object obtained, or None
    raised,         \* the error the last operation raised, or None
    setup,          \* the Setup object obtained, or None
    call,           \* the last operation called and its argument
    last_ok,        \* the argument of the last set_filter/load_filter that
                    \* returned normally, or None
    seeding_config, \* the seeding section of the configuration, with the
                    \* files it names
    draw,           \* the outcome of the last seeding_draw, or None
    prev_draw,      \* the outcome of the FolderDraw draw before the last
                    \* one, or None
    params          \* what the last parameters_quick_draw returned, with the
                    \* two values sampled on the way, or None

vars == <<geodata, mobility_file, spatset, raised, setup, call, last_ok,
          seeding_config, draw, prev_draw, params>>

seeding_vars == <<seeding_config, draw, prev_draw>>

spatial_files == <<geodata, mobility_file>>

setup_vars == <<setup, call, last_ok>>

GeodataFiles(maxrows) ==
    UNION {{[columns |-> cs, names |-> ns, pops |-> ps] :
                cs \in SUBSET {"population", "geoid"},
                ns \in SeqsOfLen(Geoids, k),
                ps \in SeqsOfLen(Populations, k)} :
           k \in 1..maxrows}

\* len(nodenames) != len(set(nodenames))
HasDuplicates(names) == Len(names) # Cardinality(Range(names))

\* tmp = (mobility.T - popnodes).T ; tmp[tmp < 0] = 0: the residual of
\* entry (r, c) over the population of the source node r
Residual(mob, pops, r, c) ==
    LET d == At(mob, r, c) - pops[r + 1] IN IF d < 0 THEN 0 ELSE d

\* the error line of entry (r, c):
\* "(r, c) = mobility[r,c] > population of 'nodenames[r]' = popnodes[r]"
ErrLine(mob, names, pops, r, c) ==
    [r |-> r, c |-> c, flow |-> At(mob, r, c),
     geoids |-> <<names[r + 1]>>, pop |-> pops[r + 1]]

\* scipy.sparse.find(tmp) walks the nonzero residuals in row-major order;
\* one error line is appended per entry found
RECURSIVE ErrMsgFrom(_, _, _, _)
ErrMsgFrom(mob, names, pops, k) ==
    LET n == mob.shape[2]
    IN  IF k >= mob.shape[1] * n THEN << >>
        ELSE LET r == k \div n
                 c == k % n
                 rest == ErrMsgFrom(mob, names, pops, k + 1)
             IN  IF Residual(mob, pops, r, c) # 0
                 THEN <<ErrLine(mob, names, pops, r, c)>> \o rest
                 ELSE rest

\* the whole message body: every entry found, none skipped
ErrMsg_firstOnly(mob, names, pops) ==
    LET all == ErrMsgFrom(mob, names, pops, 0)
    IN  IF all = << >> THEN << >> ELSE <<Head(all)>>

ErrMsg(mob, names, pops) == ErrMsgFrom(mob, names, pops, 0)

\* mobility.shape != (nnodes, nnodes)
ShapeMismatch_rowsOnly(mobility, nnodes) == mobility.shape[1] # nnodes

ShapeMismatch(mobility, nnodes) == mobility.shape # <<nnodes, nnodes>>

ValueError(kind, lines) == [type |-> "ValueError", kind |-> kind, lines |-> lines]

\* SpatialSetup.__init__: the object, or the error raised
SpatialSetupResult(gd, mf) ==
    LET nnodes == Len(gd.names)
        mobility == csr_matrix(loadtxt(mf))
    IN  IF "population" \notin gd.columns
        THEN [obj |-> None, err |-> ValueError("popnodes_key", << >>)]
        ELSE IF "geoid" \notin gd.columns
        THEN [obj |-> None, err |-> ValueError("nodenames_key", << >>)]
        ELSE IF HasDuplicates(gd.names)
        THEN [obj |-> None, err |-> ValueError("duplicate nodenames", << >>)]
        ELSE IF ShapeMismatch(mobility, nnodes)
        THEN [obj |-> None, err |-> ValueError("mobility dimensions", << >>)]
        ELSE LET lines == ErrMsg(mobility, gd.names, gd.pops)
             IN  IF lines # << >>
                 THEN [obj |-> None, err |-> ValueError("mobility exceeds population", lines)]
                 ELSE [obj |-> [nnodes |-> nnodes, popnodes |-> gd.pops,
                                nodenames |-> gd.names, mobility |-> mobility],
                       err |-> None]

SpatialInit ==
    /\ geodata \in GeodataFiles(MaxNodes)
    /\ mobility_file \in MatrixFiles(FlowValues, MaxDim)
    /\ spatset = None
    /\ raised = None
    /\ setup = None /\ call = None /\ last_ok = None
    /\ seeding_config = None /\ draw = None /\ prev_draw = None /\ params = None

SpatialSetup__init__ ==
    /\ spatset = None /\ raised = None
    /\ LET res == SpatialSetupResult(geodata, mobility_file)
       IN  /\ spatset' = res.obj
           /\ raised' = res.err
    /\ UNCHANGED <<spatial_files, setup_vars, seeding_vars, params>>

SpatialNext == SpatialSetup__init__

SpecSpatial == SpatialInit /\ [][SpatialNext]_vars

\* ------------------------------------------------- SpatialSetup: claims
SpatialActed == spatset # None \/ raised # None

K == Len(geodata.names)

ColumnsPresent == {"population", "geoid"} \subseteq geodata.columns

GeoidsDistinct ==
    \A i, j \in 1..K : i # j => geodata.names[i] # geodata.names[j]

FileIsKxK == mobility_file.nrows = K /\ mobility_file.ncols = K

\* flow(i, j) as written in the file, i and j 0-based
FileFlow(i, j) == mobility_file.flat[i * mobility_file.ncols + j + 1]

\* the entries (i, j) of a K x K file whose flow exceeds population(i)
Offending ==
    {e \in (0..(K - 1)) \X (0..(K - 1)) : FileFlow(e[1], e[2]) > geodata.pops[e[1] + 1]}

OffendingCase ==
    SpatialActed /\ ColumnsPresent /\ GeoidsDistinct /\ FileIsKxK /\ Offending # {}

\* the error is one error whose lines are exactly the offending entries,
\* each with its flow and the source population
EnumeratesOffending ==
    /\ spatset = None
    /\ raised # None
    /\ raised.kind = "mobility exceeds population"
    /\ {<<l.r, l.c>> : l \in Range(raised.lines)} = Offending
    /\ Len(raised.lines) = Cardinality(Offending)
    /\ \A l \in Range(raised.lines) :
          /\ l.flow = FileFlow(l.r, l.c)
          /\ l.pop = geodata.pops[l.r + 1]

\* C1 as stated: with distinct geoids and a K x K matrix with entries over
\* the source population, the single error lists every offending entry and
\* no other, each with the row geoid, the column geoid, the flow and the
\* source population.
C1_AsStated ==
    OffendingCase =>
        /\ EnumeratesOffending
        /\ \A l \in Range(raised.lines) :
              /\ geodata.names[l.r + 1] \in Range(l.geoids)
              /\ geodata.names[l.c + 1] \in Range(l.geoids)

\* C1 amended: the single error lists every offending entry and no other,
\* each with the row index, the column index, the flow, the geoid of the
\* row (source) node and the source population; the column node appears
\* by index only.
C1_Amended ==
    OffendingCase =>
        /\ EnumeratesOffending
        /\ \A l \in Range(raised.lines) : l.geoids = <<geodata.names[l.r + 1]>>

\* two offending entries at once, one of them off the diagonal
C1_Witness ==
    /\ OffendingCase
    /\ Cardinality(Offending) >= 2
    /\ \E l \in Range(raised.lines) : l.r # l.c

\* C2: construction yields an object exactly when both columns are present,
\* the geoids are pairwise distinct, the matrix file is K x K and no flow
\* exceeds its source population; the object has nnodes = K, the geoids in
\* table order and a (K, K) mobility; otherwise an error is raised and no
\* object is obtained.
C2_ConstructionIff ==
    SpatialActed =>
        /\ (spatset # None) <=>
              (ColumnsPresent /\ GeoidsDistinct /\ FileIsKxK /\ Offending = {})
        /\ spatset # None =>
              /\ raised = None
              /\ spatset.nnodes = K
              /\ spatset.nodenames = geodata.names
              /\ spatset.mobility.shape = <<K, K>>
        /\ spatset = None => raised # None

\* a two-node network accepted with a nonzero flow
C2_Witness ==
    /\ spatset # None
    /\ spatset.nnodes = 2
    /\ \E i \in 1..Len(spatset.mobility.flat) : spatset.mobility.flat[i] # 0

\* a repeat that is not adjacent in the table is rejected
C2_WitnessDuplicate ==
    /\ raised # None
    /\ raised.kind = "duplicate nodenames"
    /\ K = 3 /\ geodata.names[1] = geodata.names[3] /\ geodata.names[1] # geodata.names[2]

\* ---------------------------------------------------------------- Setup
\* a SpatialSetup of k nodes, obtained from its constructor with a node
\* table of distinct geoids and an all-zero k x k mobility file
NodeOrder == <<"a", "b", "c">>

SpatsetOf(k, pops) ==
    SpatialSetupResult(
        [columns |-> {"population", "geoid"},
         names |-> [i \in 1..k |-> NodeOrder[i]], pops |-> pops],
        [nrows |-> k, ncols |-> k, flat |-> [i \in 1..(k * k) |-> 0]]).obj

Spatsets == {SpatsetOf(k, [i \in 1..k |-> 2]) : k \in 1..MaxDim}

\* rationals num / den with den > 0
Rat(n, d) == [num |-> n, den |-> d]

RatEq(x, y) == x.num * y.den = y.num * x.den

RatLess(x, y) == x.num * y.den < y.num * x.den

CeilDiv(a, b) == (a + b - 1) \div b

default_dt == Rat(1, 6)

\* np.arange(0, t_span + 0.0001, dt): ceil((stop - start) / step) elements,
\* element i is start + i * step
t_interLen_noEpsilon(t_span, dt) == CeilDiv(t_span * dt.den, dt.num)

t_interLen(t_span, dt) ==
    CeilDiv((t_span * EpsDen + 1) * dt.den, EpsDen * dt.num)

arange_t_inter(t_span, dt) ==
    [i \in 1..t_interLen(t_span, dt) |-> Rat((i - 1) * dt.num, dt.den)]

\* -np.ones(shape)
MinusOnes(r, c) == [shape |-> <<r, c>>, flat |-> [i \in 1..(r * c) |-> -1]]

\* Setup.__init__ with build_setup: the object, or the error raised
SetupResult(sp, ti, tf, dt) ==
    IF tf <= ti
    THEN [obj |-> None, err |-> ValueError("tf <= ti", << >>)]
    ELSE LET t_span == tf - ti
         IN  [obj |-> [ti |-> ti, tf |-> tf, dt |-> dt,
                       t_span |-> t_span,
                       t_inter |-> arange_t_inter(t_span, dt),
                       nnodes |-> sp.nnodes,
                       popnodes |-> sp.popnodes,
                       mobility |-> sp.mobility,
                       dynfilter |-> MinusOnes(t_span, sp.nnodes)],
              err |-> None]

\* dynfilter.shape != (t_span, nnodes)
FilterShapeMismatch_rowsOnly(s, dynfilter) ==
    Len(dynfilter.shape) = 0 \/ dynfilter.shape[1] # s.t_span

FilterShapeMismatch(s, dynfilter) == dynfilter.shape # <<s.t_span, s.nnodes>>

\* Setup.set_filter: the object afterwards, and the error raised if any
set_filterResult_assignFirst(s, dynfilter) ==
    IF FilterShapeMismatch(s, dynfilter)
    THEN [obj |-> [s EXCEPT !.dynfilter = dynfilter],
          err |-> ValueError("filter dimensions", << >>)]
    ELSE [obj |-> [s EXCEPT !.dynfilter = dynfilter], err |-> None]

set_filterResult(s, dynfilter) ==
    IF FilterShapeMismatch(s, dynfilter)
    THEN [obj |-> s, err |-> ValueError("filter dimensions", << >>)]
    ELSE [obj |-> [s EXCEPT !.dynfilter = dynfilter], err |-> None]

\* the values of the arrays handed to set_filter and of the filter files:
\* constant 0, constant 1, and the two alternating fillings
FilterFlats(n) == {[i \in 1..n |-> (i * a + b) % 2] : a \in 0..1, b \in 0..1}

FilterFiles ==
    UNION {{[nrows |-> r, ncols |-> c, flat |-> f] : f \in FilterFlats(r * c)} :
           <<r, c>> \in (1..MaxSpan) \X (1..MaxDim)}

\* arrays of dimension 0, 1 and 2
FilterArrays ==
    {loadtxt(f) : f \in FilterFiles} \cup
    {[shape |-> <<f.nrows, f.ncols>>, flat |-> f.flat] : f \in FilterFiles}

Dts == {Rat(n, d) : n \in 1..MaxDtNum, d \in 1..MaxDtDen} \cup {default_dt}

SetupInit ==
    /\ geodata = None /\ mobility_file = None
    /\ spatset \in Spatsets
    /\ raised = None
    /\ setup = None /\ call = None /\ last_ok = None
    /\ seeding_config = None /\ draw = None /\ prev_draw = None /\ params = None

Setup__init__(ti, tf, dt) ==
    /\ setup = None /\ raised = None
    /\ LET res == SetupResult(spatset, ti, tf, dt)
       IN  /\ setup' = res.obj
           /\ raised' = res.err
    /\ call' = [op |-> "__init__", arg |-> <<ti, tf, dt>>]
    /\ UNCHANGED <<spatial_files, spatset, last_ok, seeding_vars, params>>

set_filter(dynfilter) ==
    /\ setup # None
    /\ LET res == set_filterResult(setup, dynfilter)
       IN  /\ setup' = res.obj
           /\ raised' = res.err
           /\ last_ok' = IF res.err = None THEN dynfilter ELSE last_ok
    /\ call' = [op |-> "set_filter", arg |-> dynfilter]
    /\ UNCHANGED <<spatial_files, spatset, seeding_vars, params>>

load_filter(file) ==
    /\ setup # None
    /\ LET res == set_filterResult(setup, loadtxt(file))
       IN  /\ setup' = res.obj
           /\ raised' = res.err
           /\ last_ok' = IF res.err = None THEN loadtxt(file) ELSE last_ok
    /\ call' = [op |-> "load_filter", arg |-> file]
    /\ UNCHANGED <<spatial_files, spatset, seeding_vars, params>>

SetupNext ==
    \/ \E ti \in {1}, tf \in 0..(MaxSpan + 1), dt \in Dts : Setup__init__(ti, tf, dt)
    \/ \E a \in FilterArrays : set_filter(a)
    \/ \E f \in FilterFiles : load_filter(f)

SpecSetup == SetupInit /\ [][SetupNext]_vars

\* --------------------------------------------------------- Setup: claims
Last(sq) == sq[Len(sq)]

IsSetFilterStep == call'.op = "set_filter"

\* C6: set_filter(a) with a.shape # (t_span, nnodes) raises and leaves
\* dynfilter as it was; with a.shape = (t_span, nnodes) it returns normally
\* and dynfilter is exactly a, nothing of the previous filter kept.
C6_SetFilter ==
    [][IsSetFilterStep =>
          IF call'.arg.shape = <<setup.t_span, setup.nnodes>>
          THEN raised' = None /\ setup'.dynfilter = call'.arg
          ELSE raised' # None /\ setup'.dynfilter = setup.dynfilter]_vars

\* a filter was replaced by a different one of the right shape, and a later
\* set_filter of the wrong shape was refused
C6_Witness ==
    /\ setup # None /\ call # None /\ last_ok # None
    /\ call.op = "set_filter"
    /\ raised # None
    /\ call.arg.shape = <<setup.nnodes, setup.t_span>>
    /\ setup.t_span # setup.nnodes
    /\ setup.dynfilter = last_ok

GridDivides(s) == (s.t_span * s.dt.den) % s.dt.num = 0

GridIsMultiplesOfDt(s) ==
    /\ s.t_span = s.tf - s.ti
    /\ Len(s.t_inter) >= 1
    /\ \A i \in 1..Len(s.t_inter) : RatEq(s.t_inter[i], Rat((i - 1) * s.dt.num, s.dt.den))
    /\ \A i \in 1..(Len(s.t_inter) - 1) : RatLess(s.t_inter[i], s.t_inter[i + 1])

\* C7 as stated: t_span is the number of days from ti to tf and t_inter is
\* 0, dt, 2*dt, ... strictly increasing with last element t_span, for every
\* positive dt.
C7_AsStated ==
    setup # None =>
        /\ GridIsMultiplesOfDt(setup)
        /\ RatEq(Last(setup.t_inter), Rat(setup.t_span, 1))

\* t_span + 0.0001, the upper bound handed to np.arange
GridStop(s) == Rat(s.t_span * EpsDen + 1, EpsDen)

\* C7 amended: t_span is the number of days from ti to tf and t_inter is
\* the strictly increasing 0, dt, 2*dt, ... of all multiples of dt below
\* t_span + 0.0001; its last element is t_span exactly when t_span is a
\* whole multiple of dt (dt not below the 0.0001 epsilon), as for dt = 1
\* (length t_span + 1) and dt = 1/n (length n*t_span + 1).
C7_Amended ==
    setup # None =>
        /\ GridIsMultiplesOfDt(setup)
        /\ RatLess(Last(setup.t_inter), GridStop(setup))
        /\ ~RatLess(Rat(Len(setup.t_inter) * setup.dt.num, setup.dt.den),
                    GridStop(setup))
        /\ RatEq(Last(setup.t_inter), Rat(setup.t_span, 1)) <=> GridDivides(setup)
        /\ setup.dt.num = 1 => Len(setup.t_inter) = setup.dt.den * setup.t_span + 1

\* dt = 3/2 over two days: the grid is 0, 3/2 and stops short of day 2
C7_Witness ==
    /\ setup # None
    /\ setup.dt = Rat(3, 2)
    /\ setup.t_span = 2
    /\ Len(setup.t_inter) = 2
    /\ RatEq(Last(setup.t_inter), Rat(3, 2))

\* C10: once a Setup is constructed, after any set_filter and load_filter
\* calls dynfilter has shape (t_span, nnodes); it is all -1 until a call
\* returns normally and then it is the argument of the last such call.
C10_DynfilterShape ==
    setup # None =>
        /\ setup.dynfilter.shape = <<setup.t_span, setup.nnodes>>
        /\ last_ok = None => setup.dynfilter = MinusOnes(setup.t_span, setup.nnodes)
        /\ last_ok # None => setup.dynfilter = last_ok

\* a load_filter refused after an earlier call had replaced the filter
C10_Witness ==
    /\ setup # None /\ call # None /\ last_ok # None
    /\ call.op = "load_filter"
    /\ raised # None
    /\ setup.dynfilter = last_ok
    /\ setup.dynfilter # MinusOnes(setup.t_span, setup.nnodes)

\* ---------------------------------------------------------- seeding_draw
Error(type, kind, lines) == [type |-> type, kind |-> kind, lines |-> lines]

\* Python's a % n for n > 0: the remainder of floor division, in 0..n-1
PyMod_truncated(a, n) == IF a >= 0 THEN a % n ELSE -((-a) % n)

PyMod(a, n) ==
    LET floordiv == IF a >= 0 THEN a \div n ELSE -((-a + n - 1) \div n)
    IN  a - n * floordiv

\* indexing a sequence of length n with i: a negative i counts from the end,
\* -1 here stands for the IndexError of an i outside -n .. n-1
PyIndex(n, i) ==
    IF i >= 0 /\ i < n THEN i
    ELSE IF i < 0 /\ i >= -n THEN n + i
    ELSE -1

\* list.index(x), 0-based, for an x that is in the list
ListIndex(names, x) ==
    (CHOOSE i \in 1..Len(names) :
        names[i] = x /\ \A j \in 1..(i - 1) : names[j] # x) - 1

\* the row number printed for the row with index label i (labels from 0)
RowNumber_zeroBased(i) == i

RowNumber(i) == i + 1

\* seeding.duplicated(['place', 'date']): a row is marked when an earlier
\* row has the same place and date
duplicated_placeOnly(rows, i) ==
    \E j \in 1..(i - 1) : rows[j].place = rows[i].place

duplicated(rows, i) ==
    \E j \in 1..(i - 1) :
        rows[j].place = rows[i].place /\ rows[j].date = rows[i].date

RECURSIVE DupesFrom(_, _)
DupesFrom(rows, i) ==
    IF i > Len(rows) THEN << >>
    ELSE (IF duplicated(rows, i) THEN <<RowNumber(i - 1)>> ELSE << >>)
         \o DupesFrom(rows, i + 1)

\* np.zeros((t_span + 1, nnodes))
Zeros(r, c) == [shape |-> <<r, c>>, flat |-> [i \in 1..(r * c) |-> 0]]

\* importation[r][c] = v, r and c 0-based and in range
SetItem(arr, r, c, v) ==
    [arr EXCEPT !.flat[r * arr.shape[2] + c + 1] = v]

Outcome(uid, nfile, imp, err, draws) ==
    [uid |-> uid, nfile |-> nfile, importation |-> imp, err |-> err,
     draws |-> draws]

\* the loop over the rows of the lambda file from row i on; d[i] is what
\* np.random.poisson returns for row i, imp the schedule so far, n the
\* number of draws made so far
RECURSIVE PoissonRows(_, _, _, _, _, _, _)
PoissonRows(s, names, rows, d, i, imp, n) ==
    IF i > Len(rows) THEN [importation |-> imp, err |-> None, draws |-> n]
    ELSE IF rows[i].place \notin Range(names)
    THEN [importation |-> None,
          err |-> Error("ValueError", "invalid place",
                        <<[row |-> RowNumber(i - 1), place |-> rows[i].place]>>),
          draws |-> n]
    ELSE IF rows[i].amount < 0
    THEN [importation |-> None,
          err |-> Error("ValueError", "lam < 0", << >>), draws |-> n]
    ELSE LET r == PyIndex(s.t_span + 1, rows[i].date - s.ti)
         IN  IF r < 0
             THEN [importation |-> None,
                   err |-> Error("IndexError", "date", << >>), draws |-> n + 1]
             ELSE PoissonRows(s, names, rows, d, i + 1,
                              SetItem(imp, r, ListIndex(names, rows[i].place), d[i]),
                              n + 1)

\* the loop over the rows of the file drawn from the folder
RECURSIVE FolderRows(_, _, _, _, _)
FolderRows(s, names, rows, i, imp) ==
    IF i > Len(rows) THEN [importation |-> imp, err |-> None, draws |-> 0]
    ELSE LET r == PyIndex(s.t_span + 1, rows[i].date - s.ti)
         IN  IF r < 0
             THEN [importation |-> None,
                   err |-> Error("IndexError", "date", << >>), draws |-> 0]
             ELSE IF rows[i].place \notin Range(names)
             THEN [importation |-> None,
                   err |-> Error("ValueError", "not in list", << >>), draws |-> 0]
             ELSE FolderRows(s, names, rows, i + 1,
                             SetItem(imp, r, ListIndex(names, rows[i].place),
                                     rows[i].amount))

\* seeding_draw(s, uid) given the values d the Poisson draws return
seeding_drawResult(s, sp, cfg, uid, d) ==
    LET imp0 == Zeros(s.t_span + 1, s.nnodes)
    IN  IF cfg.method = "PoissonDistributed"
        THEN LET dupes == DupesFrom(cfg.lambda_file, 1)
             IN  IF dupes # << >>
                 THEN Outcome(uid, 0, None,
                              Error("ValueError", "repeated place-date", dupes), 0)
                 ELSE LET res == PoissonRows(s, sp.nodenames, cfg.lambda_file,
                                             d, 1, imp0, 0)
                      IN  Outcome(uid, 0, res.importation, res.err, res.draws)
        ELSE IF cfg.method = "FolderDraw"
        THEN LET nfile == PyMod(uid, Len(cfg.folder)) + 1
             IN  IF nfile \notin 1..Len(cfg.folder)
                 THEN Outcome(uid, nfile, None,
                              Error("FileNotFoundError", "importation file", << >>), 0)
                 ELSE LET res == FolderRows(s, sp.nodenames, cfg.folder[nfile],
                                            1, imp0)
                      IN  Outcome(uid, nfile, res.importation, res.err, 0)
        ELSE Outcome(uid, 0, None,
                     Error("NotImplementedError", "unknown seeding method", << >>), 0)

\* the Setup seedings are drawn for starts on day 1; the dates of the rows
\* fall before it, on it, on its last day and after it
SeedDates == {-(MaxSeedSpan + 1), 0, 1, MaxSeedSpan + 1, MaxSeedSpan + 2}

LambdaRows ==
    [place : Geoids, date : SeedDates, amount : {-1, 0, 1}]

FolderFileRows ==
    [place : Geoids, date : SeedDates, amount : {2}]

SeedingConfigs(maxrows, maxfiles) ==
    {[method |-> "PoissonDistributed", lambda_file |-> f] :
        f \in SeqsUpTo(LambdaRows, maxrows)}
    \cup
    {[method |-> "FolderDraw", folder |-> fs] :
        fs \in UNION {SeqsOfLen(SeqsUpTo(FolderFileRows, 1), n) : n \in 1..maxfiles}}
    \cup
    {[method |-> "Other"]}

\* what np.random.poisson(amount) can return
PoissonSupport(amount) == IF amount > 0 THEN 0..MaxDraw ELSE {0}

PoissonDraws(cfg) ==
    IF cfg.method = "PoissonDistributed"
    THEN {d \in [1..Len(cfg.lambda_file) -> 0..MaxDraw] :
            \A i \in 1..Len(cfg.lambda_file) :
                d[i] \in PoissonSupport(cfg.lambda_file[i].amount)}
    ELSE {<< >>}

\* the replicate ids drawn: FolderDraw alone reads uid, and there they reach
\* below 0 and above the number of files
ReplicateIds(cfg) ==
    IF cfg.method = "FolderDraw"
    THEN (-Len(cfg.folder) - 1)..(Len(cfg.folder) + 1)
    ELSE {0}

SeedingInit ==
    /\ geodata = None /\ mobility_file = None
    /\ spatset = SpatsetOf(2, <<2, 2>>)
    /\ \E span \in 1..MaxSeedSpan :
          setup = SetupResult(spatset, 1, 1 + span, default_dt).obj
    /\ raised = None /\ call = None /\ last_ok = None
    /\ seeding_config \in SeedingConfigs(MaxRows, MaxFiles)
    /\ draw = None /\ prev_draw = None /\ params = None

seeding_draw(uid) ==
    /\ \E d \in PoissonDraws(seeding_config) :
          draw' = seeding_drawResult(setup, spatset, seeding_config, uid, d)
    /\ raised' = draw'.err
    /\ prev_draw' = IF seeding_config.method = "FolderDraw" THEN draw ELSE prev_draw
    /\ call' = [op |-> "seeding_draw", arg |-> uid]
    /\ UNCHANGED <<spatial_files, spatset, setup, last_ok, seeding_config, params>>

SeedingNext == \E uid \in ReplicateIds(seeding_config) : seeding_draw(uid)

SpecSeeding == SeedingInit /\ [][SeedingNext]_vars

\* -------------------------------------------------- seeding_draw: claims
IsPoisson == seeding_config.method = "PoissonDistributed"

IsFolder == seeding_config.method = "FolderDraw"

NFiles == Len(seeding_config.folder)

\* the rows of the file the last draw read
SelectedRows ==
    IF IsPoisson THEN seeding_config.lambda_file
    ELSE IF IsFolder /\ draw.nfile \in 1..NFiles THEN seeding_config.folder[draw.nfile]
    ELSE << >>

DayOffset(row) == row.date - setup.ti

DateOutside(row) == DayOffset(row) < 0 \/ DayOffset(row) > setup.t_span

\* C3: under both methods seeding_draw fails, and returns no schedule, when
\* some row's date is outside [ti, ti + t_span].
C3_AsStated ==
    (draw # None /\ \E i \in 1..Len(SelectedRows) : DateOutside(SelectedRows[i]))
        => (draw.err # None /\ draw.importation = None)

\* the rows whose (place, date) pair is also the pair of another row
InRepeat(rows) ==
    {i \in 1..Len(rows) :
        \E j \in 1..Len(rows) :
            j # i /\ rows[j].place = rows[i].place /\ rows[j].date = rows[i].date}

\* the rows whose (place, date) pair is the pair of an earlier row
RepeatsEarlier(rows) ==
    {i \in 1..Len(rows) :
        \E j \in 1..(i - 1) :
            rows[j].place = rows[i].place /\ rows[j].date = rows[i].date}

IsAscending(sq) == \A i \in 1..(Len(sq) - 1) : sq[i] < sq[i + 1]

RepeatedError == draw.err # None /\ draw.err.kind = "repeated place-date"

\* C4 as stated: a lambda file with a repeated (place, date) pair makes the
\* draw fail before any Poisson draw, the error naming the row number of
\* every row involved in a repeat, first occurrences included.
C4_AsStated ==
    (draw # None /\ IsPoisson /\ InRepeat(seeding_config.lambda_file) # {}) =>
        /\ RepeatedError /\ draw.importation = None /\ draw.draws = 0
        /\ Range(draw.err.lines) = InRepeat(seeding_config.lambda_file)

\* C4 amended: a lambda file with a repeated (place, date) pair makes the
\* draw fail before any Poisson draw, the error naming the 1-based row
\* number of every row that repeats the pair of an earlier row (every
\* occurrence of a pair but its first); a file without repeats never fails
\* this way.
C4_Amended ==
    (draw # None /\ IsPoisson) =>
        /\ RepeatedError <=> InRepeat(seeding_config.lambda_file) # {}
        /\ RepeatedError =>
              /\ draw.importation = None /\ draw.draws = 0
              /\ Range(draw.err.lines) = RepeatsEarlier(seeding_config.lambda_file)
              /\ IsAscending(draw.err.lines)

\* two rows share a pair: row 2 is named, row 1 is not
C4_Witness ==
    /\ draw # None /\ IsPoisson
    /\ InRepeat(seeding_config.lambda_file) = {1, 2}
    /\ RepeatedError
    /\ draw.err.lines = <<2>>

\* C5: in FolderDraw over N >= 1 files the file number is (uid mod N) + 1,
\* in 1..N, for every uid, negative ones included, and the draws for uid
\* and uid + N read the same file and return the same schedule (or fail
\* alike).
C5_FolderModulo ==
    (draw # None /\ IsFolder) =>
        /\ draw.nfile \in 1..NFiles
        /\ \E q \in -2..2 : draw.uid = q * NFiles + (draw.nfile - 1)
        /\ (prev_draw # None /\ draw.uid = prev_draw.uid + NFiles) =>
              /\ draw.nfile = prev_draw.nfile
              /\ draw.importation = prev_draw.importation
              /\ draw.err = prev_draw.err

\* a negative uid and uid + N both read file 2 of 2, and both return a
\* schedule with an importation in it
C5_Witness ==
    /\ draw # None /\ prev_draw # None /\ IsFolder
    /\ NFiles = 2
    /\ prev_draw.uid < 0
    /\ draw.uid = prev_draw.uid + NFiles
    /\ draw.nfile = 2
    /\ draw.importation # None
    /\ \E i \in 1..Len(draw.importation.flat) : draw.importation.flat[i] # 0
    /\ seeding_config.folder[1] # seeding_config.folder[2]

InvalidPlace(row) == row.place \notin Range(spatset.nodenames)

InvalidRows == {i \in 1..Len(SelectedRows) : InvalidPlace(SelectedRows[i])}

FirstInvalid == CHOOSE i \in InvalidRows : \A j \in InvalidRows : i <= j

NamesFirstInvalid ==
    /\ draw.err.kind = "invalid place"
    /\ draw.err.lines =
          <<[row |-> FirstInvalid, place |-> SelectedRows[FirstInvalid].place]>>

\* C9 as stated: under both methods the draw fails, and returns no
\* schedule, when a row of the selected file has a place that is no node
\* geoid; under PoissonDistributed without repeated pairs the error names
\* the 1-based row number and the place of the first such row.
C9_AsStated ==
    (draw # None /\ InvalidRows # {}) =>
        /\ draw.err # None /\ draw.importation = None
        /\ (IsPoisson /\ InRepeat(SelectedRows) = {}) => NamesFirstInvalid

\* the day offsets that index the (t_span + 1)-row schedule without error
OffsetAccepted(row) ==
    DayOffset(row) >= -(setup.t_span + 1) /\ DayOffset(row) <= setup.t_span

\* C9 amended: under both methods the draw fails, and returns no schedule,
\* when a row of the selected file has a place that is no node geoid; under
\* PoissonDistributed without repeated pairs, and when every row before the
\* first such row is written without error (its amount is not negative and
\* its day offset indexes the schedule), the error names the 1-based row
\* number and the place of the first such row.
C9_Amended ==
    (draw # None /\ InvalidRows # {}) =>
        /\ draw.err # None /\ draw.importation = None
        /\ (/\ IsPoisson
            /\ InRepeat(SelectedRows) = {}
            /\ \A j \in 1..(FirstInvalid - 1) :
                  SelectedRows[j].amount >= 0 /\ OffsetAccepted(SelectedRows[j]))
           => NamesFirstInvalid

\* the second row of a lambda file is the first with an unknown place, after
\* a first row that drew its Poisson count
C9_Witness ==
    /\ draw # None /\ IsPoisson
    /\ InvalidRows # {} /\ FirstInvalid = 2
    /\ draw.draws = 1
    /\ draw.err # None /\ NamesFirstInvalid

\* ------------------------------------------------ parameters_quick_draw
RatMul(x, y) == Rat(x.num * y.num, x.den * y.den)

RatSub(x, y) == Rat(x.num * y.den - y.num * x.den, x.den * y.den)

\* npi.resample(str(dt * 24) + 'H').ffill(): one point every dt days from
\* the first day of the series up to its last day, each with the value of
\* the day it falls in
resample_ffill(npi, dt) ==
    [k \in 1..(((Len(npi) - 1) * dt.den) \div dt.num + 1) |->
        npi[((k - 1) * dt.num) \div dt.den + 1]]

\* beta = R0s * gamma / n_Icomp
raw_beta_notDivided(R0s, gamma) == Rat(R0s.num * gamma.num, R0s.den * gamma.den)

raw_beta(R0s, gamma) == Rat(R0s.num * gamma.num, R0s.den * gamma.den * n_Icomp)

\* np.multiply(beta, ones_like(beta) - npi.T) for beta of shape
\* (nnodes, nt_inter) and a series of L points: numpy broadcasts the series
\* along the nodes when L = nt_inter, stretches a one-point series or a
\* one-column beta, and raises otherwise
BroadcastCols(nt_inter, L) ==
    IF L = nt_inter THEN nt_inter
    ELSE IF L = 1 THEN nt_inter
    ELSE IF nt_inter = 1 THEN L
    ELSE 0

multiply_npi(raw, nnodes, nt_inter, series) ==
    LET L == Len(series)
        cols == BroadcastCols(nt_inter, L)
    IN  [shape |-> <<nnodes, cols>>,
         flat |-> [i \in 1..(nnodes * cols) |->
                      LET t == ((i - 1) % cols) + 1
                      IN  RatMul(raw, RatSub(Rat(1, 1),
                                             series[IF L = 1 THEN 1 ELSE t]))]]

\* arr.T of a 2-d array
Transpose(arr) ==
    LET r == arr.shape[1]
        c == arr.shape[2]
    IN  [shape |-> <<c, r>>,
         flat |-> [i \in 1..(r * c) |->
                      arr.flat[((i - 1) % r) * c + ((i - 1) \div r) + 1]]]

\* parameters_quick_draw given the values g and R0 the two configured
\* distributions return
parameters_quick_drawResult(p_config, nt_inter, nnodes, dt, npi, g, R0) ==
    IF nnodes <= 0 \/ nt_inter <= 0
    THEN [ret |-> None, err |-> ValueError("Invalid nt_inter or nnodes", << >>)]
    ELSE LET alpha == IF p_config.alpha # None THEN p_config.alpha ELSE Rat(1, 1)
             sigma == p_config.sigma
             gamma == Rat(g.num * n_Icomp, g.den)
             R0s == R0
             series == resample_ffill(npi, dt)
         IN  IF BroadcastCols(nt_inter, Len(series)) = 0
             THEN [ret |-> None, err |-> ValueError("broadcast", << >>)]
             ELSE [ret |-> [alpha |-> alpha,
                            beta |-> Transpose(multiply_npi(raw_beta(R0s, gamma),
                                                            nnodes, nt_inter, series)),
                            sigma |-> sigma,
                            gamma |-> gamma],
                   err |-> None]

NpiValues == {Rat(0, 1), Rat(1, 2), Rat(1, 1)}

NpiSeries == SeqsUpTo(NpiValues, MaxNpiDays) \ {<< >>}

Samples == {Rat(n, 1) : n \in 1..MaxSample}

PConfigs == [alpha : {None, Rat(1, 2)}, sigma : {Rat(1, 5)}]

ParamsCalls(maxgrid, maxnodes) ==
    {[op |-> "parameters_quick_draw",
      arg |-> [p_config |-> p_config, nt_inter |-> nt_inter,
               nnodes |-> nnodes, dt |-> dt, npi |-> npi]] :
        p_config \in PConfigs, nt_inter \in 0..maxgrid, nnodes \in 0..maxnodes,
        dt \in {Rat(1, 1), Rat(1, 2), Rat(2, 1)}, npi \in NpiSeries}

\* the call to be made is drawn first, parameters_quick_draw then runs it
ParamsInit ==
    /\ geodata = None /\ mobility_file = None /\ spatset = None
    /\ raised = None /\ setup = None /\ last_ok = None
    /\ seeding_config = None /\ draw = None /\ prev_draw = None
    /\ call \in ParamsCalls(MaxGrid, MaxDim)
    /\ params = None

parameters_quick_draw ==
    /\ params = None
    /\ \E g \in Samples, R0 \in Samples :
          LET a == call.arg
              res == parameters_quick_drawResult(a.p_config, a.nt_inter, a.nnodes,
                                                 a.dt, a.npi, g, R0)
          IN  /\ params' = [ret |-> res.ret, gamma_sample |-> g, R0s_sample |-> R0]
              /\ raised' = res.err
    /\ UNCHANGED <<spatial_files, spatset, setup, call, last_ok, seeding_vars>>

ParamsNext == parameters_quick_draw

SpecParams == ParamsInit /\ [][ParamsNext]_vars

\* ----------------------------------------- parameters_quick_draw: claims
\* the reduction in force at grid point t (from 0): the value of the NPI
\* series on the day the point falls in
npi_reduction(t) ==
    call.arg.npi[(t * call.arg.dt.num) \div call.arg.dt.den + 1]

\* the NPI series covers the grid: it resamples to one point per grid point
NpiCoversGrid ==
    ((Len(call.arg.npi) - 1) * call.arg.dt.den) \div call.arg.dt.num + 1
        = call.arg.nt_inter

ParamsDrawn ==
    /\ params # None
    /\ call.arg.nnodes > 0 /\ call.arg.nt_inter > 0
    /\ NpiCoversGrid

====
